---- MODULE Spec2Model ----
(***************************************************************************)
(* Model of the variables-ui publish pipeline:                             *)
(*   - services/ipfsUploader.ts  (getPinataInstance, uploadConfigToIPFS,   *)
(*     isPinataConfigured)                                                 *)
(*   - the ConfigManager component (handleFetch, handleAddKey, ...)        *)
(*   - components/EnvironmentTab.tsx (effects, handleSaveRawJson,          *)
(*     handleUploadAndPublish, the buttons' disabled conditions)           *)
(* services/ipnsUpdater.ts and services/ipnsFetcher.ts are not part of the *)
(* sources at hand; uploadAndUpdateIPNS, the resolvers and fetchFromIPNS   *)
(* are modelled from the written specification (sections 4.3, 4.4).        *)
(***************************************************************************)
EXTENDS Integers, Sequences, FiniteSets, TLC

VARIABLES
    viteJwt,            \* import.meta.env.VITE_PINATA_JWT ("" when unset)
    configStructure,    \* ConfigManager state: the loaded configuration
    fetchedConfigs,     \* ConfigManager state: environment -> snapshot
    currentIPFSHashes,  \* ConfigManager state: environment -> resolved hash
    loading,            \* ConfigManager state: environment -> BOOLEAN
    error,              \* ConfigManager state: the error banner
    fetchProc,          \* environment -> the handleFetch call in flight
    log,                \* console output (set of lines)
    showRawJson,        \* EnvironmentTab state
    rawJsonValue,       \* EnvironmentTab state: the raw JSON text
    uploading,          \* EnvironmentTab state
    uploadResult,       \* EnvironmentTab state: the message shown
    dirty,              \* which effects of EnvironmentTab are due to run
    pc,                 \* position of handleUploadAndPublish / the orchestrator
    configToUpload,     \* the snapshot the latest handleUploadAndPublish took
    outcome,            \* what uploadAndUpdateIPNS returned to the handler
    up,                 \* the uploadConfigToIPFS call in flight
    net                 \* requests and replies of the current invocation

vars == <<viteJwt, configStructure, fetchedConfigs, currentIPFSHashes, loading,
          error, fetchProc, log, showRawJson, rawJsonValue, uploading,
          uploadResult, dirty, pc, configToUpload, outcome, up, net>>

cmVars == <<configStructure, fetchedConfigs, currentIPFSHashes, loading, error>>
tabVars == <<showRawJson, rawJsonValue, uploading, uploadResult, dirty>>
pubVars == <<pc, configToUpload, outcome>>
upVars == <<up, net>>

-----------------------------------------------------------------------------
(* JavaScript values.  A scalar keeps its type tag and its canonical text,  *)
(* so the number 1 and the string "1" are different values.  An object is   *)
(* the sequence of its own entries in insertion order.                      *)

Envs == {"dev", "prod"}

JsString(s) == [t |-> "string", v |-> s]
JsNumber(s) == [t |-> "number", v |-> s]
JsBool(s) == [t |-> "boolean", v |-> s]

\* String(v): the string holding the value's canonical text
String(x) == [t |-> "string", v |-> x.v]

Entry(k, v) == [k |-> k, v |-> v]

Undefined == [kind |-> "undefined", entries |-> <<>>, v |-> ""]
JsNull == [kind |-> "null", entries |-> <<>>, v |-> ""]
JsObject(entries) == [kind |-> "object", entries |-> entries, v |-> ""]
JsNum(s) == [kind |-> "number", entries |-> <<>>, v |-> s]

\* truthiness of a string: only "" is falsy
Truthy(s) == s # ""

\* s.trim(): the keys and texts of the model have at most blank padding
Trim(s) == IF s \in {"", " "} THEN "" ELSE s

HasKey(entries, k) == \E i \in DOMAIN entries : entries[i].k = k

\* obj[k] = v on a plain object: an existing key keeps its place
ObjSet(entries, k, v) ==
    IF HasKey(entries, k)
    THEN [i \in DOMAIN entries |->
             IF entries[i].k = k THEN Entry(k, v) ELSE entries[i]]
    ELSE Append(entries, Entry(k, v))

\* delete obj[k]
ObjDelete(entries, k) == SelectSeq(entries, LAMBDA e : e.k # k)

ObjGet(entries, k) ==
    LET i == CHOOSE i \in DOMAIN entries : entries[i].k = k IN entries[i].v

-----------------------------------------------------------------------------
(* JSON texts.  A text is its layout and the document it spells; the        *)
(* members of an object document are listed as written, duplicates and      *)
(* all.                                                                     *)

Doc(kind, members, v) == [kind |-> kind, members |-> members, v |-> v]
Text(fmt, doc) == [fmt |-> fmt, doc |-> doc]

\* '' and ' ': neither parses, both trim to '', only the first is falsy
EmptyText == Text("empty", Doc("empty", <<>>, ""))
SpaceText == Text("space", Doc("empty", <<>>, ""))
TrimIsEmpty(text) == text.doc.kind = "empty"
\* '{\n  \n}'
BlankObjectText == Text("blank", Doc("object", <<>>, ""))

RECURSIVE SetAll(_, _)
SetAll(entries, members) ==
    IF members = <<>> THEN entries
    ELSE SetAll(ObjSet(entries, Head(members).k, Head(members).v), Tail(members))

ParseThrows(text) == text.doc.kind \in {"empty", "invalid"}

\* JSON.parse(text), for a text that parses: a repeated member overwrites
JsonParse(text) ==
    CASE text.doc.kind = "object" -> JsObject(SetAll(<<>>, text.doc.members))
      [] text.doc.kind = "number" -> JsNum(text.doc.v)
      [] OTHER -> JsNull

ValueDoc(val) ==
    CASE val.kind = "object" -> Doc("object", val.entries, "")
      [] val.kind = "number" -> Doc("number", <<>>, val.v)
      [] OTHER -> Doc("null", <<>>, "")

\* JSON.stringify(value): without indentation
JsonStringify(val) == Text("compact", ValueDoc(val))

\* JSON.stringify(value, null, 2): "{}" and scalars have no line to indent
JsonStringifyPretty(val) ==
    IF val.kind = "object" /\ val.entries # <<>>
    THEN Text("pretty", ValueDoc(val))
    ELSE Text("compact", ValueDoc(val))

\* the content-addressed store names a blob by its bytes
Cid(bytes) == [cidOf |-> bytes]
NoHash == [cidOf |-> EmptyText]

-----------------------------------------------------------------------------
(* services/ipfsUploader.ts                                                 *)

UploadResult(success, hash, err) ==
    [success |-> success, ipfsHash |-> hash, error |-> err]
NoResult == UploadResult(FALSE, NoHash, "")

Call(op, arg) == [op |-> op, arg |-> arg]

\* variant of getPinataInstance without the `if (!jwt) throw`
getPinataInstance_NoCheck(pinataJwt) ==
    [threw |-> FALSE,
     jwt |-> IF Truthy(pinataJwt) THEN pinataJwt ELSE viteJwt,
     error |-> ""]

\* getPinataInstance: the argument, else the build-time variable, else throw
getPinataInstance(pinataJwt) ==
    LET jwt == IF Truthy(pinataJwt) THEN pinataJwt ELSE viteJwt IN
    IF ~Truthy(jwt)
    THEN [threw |-> TRUE, jwt |-> "", error |-> "Pinata JWT is required"]
    ELSE [threw |-> FALSE, jwt |-> jwt, error |-> ""]

isPinataConfigured(pinataJWT) == Truthy(pinataJWT) \/ Truthy(viteJwt)

IdleUpload == [pc |-> "idle", config |-> Undefined, environmentName |-> "",
               pinataJWT |-> "", result |-> NoResult]

\* the catch block: whatever was thrown becomes {success: false, error}
Caught(err) == UploadResult(FALSE, NoHash, err)

\* uploadConfigToIPFS up to its first await: getPinataInstance runs inside
\* the try, so its throw settles the call; otherwise the authentication
\* request is issued
UploaderStart(config, environmentName, pinataJWT) ==
    LET inst == getPinataInstance(pinataJWT)
        call == [pc |-> "auth", config |-> config,
                 environmentName |-> environmentName, pinataJWT |-> pinataJWT,
                 result |-> NoResult]
    IN  IF inst.threw
        THEN /\ up' = [call EXCEPT !.pc = "settled", !.result = Caught(inst.error)]
             /\ net' = <<>>
        ELSE /\ up' = call
             /\ net' = <<Call("testAuthentication", NoHash)>>

\* variant of the step after authentication that does not await the store
\* request: it is issued and the call returns the identifier at once
UploaderAfterAuth_NoAwaitStore(ok) ==
    IF ok
    THEN /\ up' = [up EXCEPT !.pc = "settled",
                             !.result = UploadResult(TRUE,
                                 Cid(JsonStringifyPretty(up.config)), "")]
         /\ net' = net \o <<Call("testAuthentication.ok", NoHash),
                            Call("upload.public.file",
                                 Cid(JsonStringifyPretty(up.config)))>>
    ELSE /\ up' = [up EXCEPT !.pc = "settled", !.result = Caught("auth rejected")]
         /\ net' = Append(net, Call("testAuthentication.rejected", NoHash))

\* variant of the step after authentication that swallows a rejection
UploaderAfterAuth_IgnoresRejection(ok) ==
    /\ up' = [up EXCEPT !.pc = "store"]
    /\ net' = net \o <<Call(IF ok THEN "testAuthentication.ok"
                            ELSE "testAuthentication.rejected", NoHash),
                       Call("upload.public.file",
                            Cid(JsonStringifyPretty(up.config)))>>

\* await pinataInstance.testAuthentication() comes back; on success the
\* snapshot is serialised and the store request is issued
UploaderAfterAuth(ok) ==
    IF ok
    THEN /\ up' = [up EXCEPT !.pc = "store"]
         /\ net' = net \o <<Call("testAuthentication.ok", NoHash),
                            Call("upload.public.file",
                                 Cid(JsonStringifyPretty(up.config)))>>
    ELSE /\ up' = [up EXCEPT !.pc = "settled", !.result = Caught("auth rejected")]
         /\ net' = Append(net, Call("testAuthentication.rejected", NoHash))

AuthReturns ==
    /\ up.pc = "auth"
    /\ \E ok \in BOOLEAN : UploaderAfterAuth(ok)
    /\ UNCHANGED <<viteJwt, cmVars, fetchProc, log, tabVars, pubVars>>

\* await pinataInstance.upload.public.file(...) comes back: the service
\* answers with the identifier of the bytes, or the request failed
UploaderAfterStore(ok) ==
    LET cid == Cid(JsonStringifyPretty(up.config)) IN
    IF ok
    THEN /\ up' = [up EXCEPT !.pc = "settled",
                             !.result = UploadResult(TRUE, cid, "")]
         /\ net' = Append(net, Call("upload.public.file.ok", cid))
    ELSE /\ up' = [up EXCEPT !.pc = "settled", !.result = Caught("store failed")]
         /\ net' = Append(net, Call("upload.public.file.failed", NoHash))

StoreReturns ==
    /\ up.pc = "store"
    /\ \E ok \in BOOLEAN : UploaderAfterStore(ok)
    /\ UNCHANGED <<viteJwt, cmVars, fetchProc, log, tabVars, pubVars>>

-----------------------------------------------------------------------------
(* ConfigManager: the snapshot handlers handed to the tab                   *)

\* the one EnvironmentTab that is mounted
environmentName == "dev"

\* variant of handleAddKey without the spread of the previous snapshot
handleAddKey_DropsOthers(cfgs, env, key, value) ==
    IF Trim(key) = "" THEN cfgs
    ELSE [cfgs EXCEPT ![env] = JsObject(<<Entry(key, value)>>)]

\* handleAddKey, as the updater it queues on fetchedConfigs
handleAddKey(cfgs, env, key, value) ==
    IF Trim(key) = "" THEN cfgs
    ELSE [cfgs EXCEPT ![env] = JsObject(ObjSet(cfgs[env].entries, key, value))]

\* handleRemoveKey, as the updater it queues on fetchedConfigs
handleRemoveKey(cfgs, env, key) ==
    [cfgs EXCEPT ![env] = JsObject(ObjDelete(cfgs[env].entries, key))]

\* handleUpdateValue, as the updater it queues: the key is assigned in place
handleUpdateValue(cfgs, env, key, value) ==
    [cfgs EXCEPT ![env] = JsObject(ObjSet(cfgs[env].entries, key, value))]

\* handleUpdateKey, as the updater it queues: the old key is deleted and
\* the new one assigned its value; the same key returns at once
handleUpdateKey(cfgs, env, oldKey, newKey) ==
    IF oldKey = newKey THEN cfgs
    ELSE LET config == cfgs[env].entries
             value == ObjGet(config, oldKey)
         IN  [cfgs EXCEPT ![env] =
                  JsObject(ObjSet(ObjDelete(config, oldKey), newKey, value))]

\* Object.keys(config).forEach(k => onRemoveKey(env, k))
RECURSIVE RemoveEach(_, _, _)
RemoveEach(cfgs, env, entries) ==
    IF entries = <<>> THEN cfgs
    ELSE RemoveEach(handleRemoveKey(cfgs, env, Head(entries).k), env, Tail(entries))

\* Object.entries(parsed).forEach(([k, v]) => onAddKey(env, k, String(v)))
RECURSIVE AddEach(_, _, _)
AddEach(cfgs, env, entries) ==
    IF entries = <<>> THEN cfgs
    ELSE AddEach(handleAddKey(cfgs, env, Head(entries).k, String(Head(entries).v)),
                 env, Tail(entries))

\* whether a forEach above queued any state update at all
QueuesRemove(entries) == entries # <<>>
QueuesAdd(entries) == \E i \in DOMAIN entries : Trim(entries[i].k) # ""

-----------------------------------------------------------------------------
(* EnvironmentTab                                                           *)

Msg(kind, hash, ipns, detail) ==
    [kind |-> kind, hash |-> hash, ipns |-> ipns, detail |-> detail]
\* null
NoMessage == Msg("none", NoHash, "", "")

fetchedConfig == fetchedConfigs[environmentName]
IsDefined(val) == val.kind # "undefined"

\* a promise has settled and its continuation has not run yet
PendingContinuation ==
    \/ pc \in {"returned", "rejected"}
    \/ pc = "upload" /\ up.pc \in {"settled", "rejected"}

\* the user can act: effects are flushed and no continuation is due
Quiescent == dirty = {} /\ ~PendingContinuation

\* the two effects of one commit; both read the state of that render
Effect1Text ==
    IF "e1" \notin dirty THEN rawJsonValue
    ELSE IF IsDefined(fetchedConfig) THEN JsonStringifyPretty(fetchedConfig)
    ELSE IF rawJsonValue = EmptyText THEN BlankObjectText
    ELSE rawJsonValue

Effect2Differs ==
    LET currentJson == IF IsDefined(fetchedConfig)
                       THEN JsonStringify(fetchedConfig)
                       ELSE JsonStringify(JsObject(<<>>))
        newJson == JsonStringify(JsonParse(rawJsonValue))
    IN  currentJson # newJson

Effect2Acts ==
    /\ "e2" \in dirty
    /\ showRawJson
    /\ ~ParseThrows(rawJsonValue)
    /\ Effect2Differs

\* the entries Object.entries(parsed) walks; Object.entries(null) throws,
\* after the removals were queued
ParsedEntries(text) == JsonParse(text).entries

Effect2Configs ==
    IF ~Effect2Acts THEN fetchedConfigs
    ELSE AddEach(RemoveEach(fetchedConfigs, environmentName, fetchedConfig.entries),
                 environmentName, ParsedEntries(rawJsonValue))

Effect2Queues ==
    /\ Effect2Acts
    /\ \/ QueuesRemove(fetchedConfig.entries)
       \/ QueuesAdd(ParsedEntries(rawJsonValue))

RunEffects ==
    /\ dirty # {}
    /\ rawJsonValue' = Effect1Text
    /\ fetchedConfigs' = Effect2Configs
    /\ dirty' = (IF Effect2Queues THEN {"e1", "e2"} ELSE {})
                \cup (IF Effect1Text # rawJsonValue THEN {"e2"} ELSE {})
    /\ UNCHANGED <<viteJwt, configStructure, currentIPFSHashes, loading, error,
                   fetchProc, log, showRawJson, uploading, uploadResult,
                   pubVars, upVars>>


editFrame == <<viteJwt, configStructure, currentIPFSHashes, loading, error,
               fetchProc, log, pubVars, upVars>>

TableVisible == IsDefined(fetchedConfig) /\ ~showRawJson

\* if (newKey !== key && newKey.trim())
KeyChangeAccepted(key, newKey) == newKey # key /\ Trim(newKey) # ""

\* the key input of a row (onChange): rename by remove-then-add
TableRenameKey(key, newKey) ==
    /\ Quiescent /\ TableVisible
    /\ HasKey(fetchedConfig.entries, key)
    /\ KeyChangeAccepted(key, newKey)
    /\ LET value == ObjGet(fetchedConfig.entries, key) IN
       fetchedConfigs' =
           handleAddKey(handleRemoveKey(fetchedConfigs, environmentName, key),
                        environmentName, newKey, String(value))
    /\ dirty' = {"e1", "e2"}
    /\ UNCHANGED <<showRawJson, rawJsonValue, uploading, uploadResult, editFrame>>

\* the value input of a row (onChange): remove-then-add under the same key
TableEditValue(key, text) ==
    /\ Quiescent /\ TableVisible
    /\ HasKey(fetchedConfig.entries, key)
    /\ text # String(ObjGet(fetchedConfig.entries, key)).v
    /\ fetchedConfigs' =
           handleAddKey(handleRemoveKey(fetchedConfigs, environmentName, key),
                        environmentName, key, JsString(text))
    /\ dirty' = {"e1", "e2"}
    /\ UNCHANGED <<showRawJson, rawJsonValue, uploading, uploadResult, editFrame>>

\* the Remove button of a row
TableRemove(key) ==
    /\ Quiescent /\ TableVisible
    /\ HasKey(fetchedConfig.entries, key)
    /\ fetchedConfigs' = handleRemoveKey(fetchedConfigs, environmentName, key)
    /\ dirty' = {"e1", "e2"}
    /\ UNCHANGED <<showRawJson, rawJsonValue, uploading, uploadResult, editFrame>>

\* the Add button (the tab's own handleAddKey): both inputs trimmed, both non-blank
TableAdd(newKey, newValue) ==
    /\ Quiescent /\ TableVisible
    /\ Trim(newKey) # "" /\ Trim(newValue) # ""
    /\ fetchedConfigs' = handleAddKey(fetchedConfigs, environmentName,
                                      Trim(newKey), JsString(Trim(newValue)))
    /\ dirty' = {"e1", "e2"}
    /\ UNCHANGED <<showRawJson, rawJsonValue, uploading, uploadResult, editFrame>>

\* another render of ConfigManager: the handlers handed to the tab are new
\* functions (effect 2), and the tab's own snapshot may have changed (effect 1)
DirtyAfter(e) ==
    IF ~configStructure.loaded THEN {}
    ELSE IF e = environmentName THEN {"e1", "e2"} ELSE dirty \cup {"e2"}

\* onUpdateKey(e, oldKey, newKey), for a key of the snapshot
UpdateKey(e, oldKey, newKey) ==
    /\ Quiescent
    /\ HasKey(fetchedConfigs[e].entries, oldKey)
    /\ oldKey # newKey
    /\ fetchedConfigs' = handleUpdateKey(fetchedConfigs, e, oldKey, newKey)
    /\ dirty' = DirtyAfter(e)
    /\ UNCHANGED <<showRawJson, rawJsonValue, uploading, uploadResult, editFrame>>

\* onUpdateValue(e, key, value), for a key of the snapshot
UpdateValue(e, key, text) ==
    /\ Quiescent
    /\ HasKey(fetchedConfigs[e].entries, key)
    /\ fetchedConfigs' = handleUpdateValue(fetchedConfigs, e, key, JsString(text))
    /\ dirty' = DirtyAfter(e)
    /\ UNCHANGED <<showRawJson, rawJsonValue, uploading, uploadResult, editFrame>>

\* the Show/Hide JSON button
ToggleRawJson ==
    /\ Quiescent
    /\ showRawJson' = ~showRawJson
    /\ dirty' = {"e2"}
    /\ UNCHANGED <<fetchedConfigs, rawJsonValue, uploading, uploadResult, editFrame>>

\* the textarea (onChange)
TypeRawJson(text) ==
    /\ Quiescent /\ showRawJson
    /\ text # rawJsonValue
    /\ rawJsonValue' = text
    /\ dirty' = {"e2"}
    /\ UNCHANGED <<fetchedConfigs, showRawJson, uploading, uploadResult, editFrame>>

\* handleSaveRawJson: a parse error only alerts; Object.entries(null) throws
\* after the removals were queued and before the confirmation is set
SaveRawJson ==
    /\ Quiescent /\ showRawJson
    /\ IF ParseThrows(rawJsonValue)
       THEN UNCHANGED <<fetchedConfigs, uploadResult, dirty>>
       ELSE /\ fetchedConfigs' =
                   AddEach(RemoveEach(fetchedConfigs, environmentName,
                                      fetchedConfig.entries),
                           environmentName, ParsedEntries(rawJsonValue))
            /\ uploadResult' =
                   IF JsonParse(rawJsonValue).kind = "null" THEN uploadResult
                   ELSE Msg("saved_locally", NoHash, "", "")
            /\ dirty' = IF \/ QueuesRemove(fetchedConfig.entries)
                           \/ QueuesAdd(ParsedEntries(rawJsonValue))
                        THEN {"e1", "e2"} ELSE {}
    /\ UNCHANGED <<showRawJson, rawJsonValue, uploading, editFrame>>


-----------------------------------------------------------------------------
(* handleUploadAndPublish and the orchestrator it awaits                    *)

IpnsResult(present, success, name, err) ==
    [present |-> present, success |-> success, ipnsName |-> name, error |-> err]
\* no ipnsResult in what the orchestrator returned
NoIpns == IpnsResult(FALSE, FALSE, "", "")

Outcome(state, ipfsResult, ipnsResult) ==
    [state |-> state, ipfsResult |-> ipfsResult, ipnsResult |-> ipnsResult]
NoOutcome == Outcome("none", NoResult, NoIpns)

\* the name an owning credential derives
NameOf(key) == IF key = "k1" THEN "name-k1" ELSE "name-k2"

\* variant of the header button's condition without the configured check
HeaderPublishEnabled_NoConfiguredCheck ==
    /\ ~uploading
    /\ ~(showRawJson /\ TrimIsEmpty(rawJsonValue))

\* variant of the header button's condition without `uploading`
HeaderPublishEnabled_IgnoresUploading ==
    /\ isPinataConfigured(configStructure.pinataJWT)
    /\ ~(showRawJson /\ TrimIsEmpty(rawJsonValue))

\* disabled={...} of the header's publish button
HeaderPublishEnabled ==
    /\ ~uploading
    /\ isPinataConfigured(configStructure.pinataJWT)
    /\ ~(showRawJson /\ TrimIsEmpty(rawJsonValue))

\* the publish button of the raw JSON view: rendered for a non-blank text
RawPublishEnabled ==
    /\ showRawJson /\ ~TrimIsEmpty(rawJsonValue)
    /\ ~uploading
    /\ isPinataConfigured(configStructure.pinataJWT)

PublishEnabled == HeaderPublishEnabled \/ RawPublishEnabled

\* the service credential the orchestrator hands to the uploader: the
\* environment's own, else the shared one of _env
ServiceCredential ==
    IF Truthy(configStructure.envJwt[environmentName])
    THEN configStructure.envJwt[environmentName]
    ELSE configStructure.pinataJWT

\* the snapshot handleUploadAndPublish takes: fetchedConfig, else the raw text parsed
ConfigToUpload ==
    IF IsDefined(fetchedConfig) THEN fetchedConfig ELSE JsonParse(rawJsonValue)

\* variant of the message that reports success only when both steps succeeded
ResultMessage_RetractsUpload(ipfsResult, ipnsResult) ==
    IF ipfsResult.success /\ ipfsResult.ipfsHash # NoHash
       /\ (ipnsResult.present => ipnsResult.success)
    THEN IF ipnsResult.present
         THEN Msg("uploaded", ipfsResult.ipfsHash, "updated", ipnsResult.ipnsName)
         ELSE Msg("uploaded", ipfsResult.ipfsHash, "no_private_key", "")
    ELSE Msg("upload_failed", NoHash, "",
             IF ipfsResult.success THEN ipnsResult.error ELSE ipfsResult.error)

\* variant of the message without the `if (ipnsResult)` test
ResultMessage_NoIpnsGuard(ipfsResult, ipnsResult) ==
    IF ipfsResult.success /\ ipfsResult.ipfsHash # NoHash
    THEN IF ipnsResult.success /\ Truthy(ipnsResult.ipnsName)
         THEN Msg("uploaded", ipfsResult.ipfsHash, "updated", ipnsResult.ipnsName)
         ELSE Msg("uploaded", ipfsResult.ipfsHash, "failed", ipnsResult.error)
    ELSE Msg("upload_failed", NoHash, "", ipfsResult.error)

\* variant of the message that appends the IPNS lines only on success
ResultMessage_SilentNameFailure(ipfsResult, ipnsResult) ==
    IF ipfsResult.success /\ ipfsResult.ipfsHash # NoHash
    THEN IF ipnsResult.present /\ ipnsResult.success /\ Truthy(ipnsResult.ipnsName)
         THEN Msg("uploaded", ipfsResult.ipfsHash, "updated", ipnsResult.ipnsName)
         ELSE Msg("uploaded", ipfsResult.ipfsHash, "no_private_key", "")
    ELSE Msg("upload_failed", NoHash, "", ipfsResult.error)

\* the message composed from what the orchestrator returned
ResultMessage(ipfsResult, ipnsResult) ==
    IF ipfsResult.success /\ ipfsResult.ipfsHash # NoHash
    THEN IF ipnsResult.present
         THEN IF ipnsResult.success /\ Truthy(ipnsResult.ipnsName)
              THEN Msg("uploaded", ipfsResult.ipfsHash, "updated", ipnsResult.ipnsName)
              ELSE Msg("uploaded", ipfsResult.ipfsHash, "failed", ipnsResult.error)
         ELSE Msg("uploaded", ipfsResult.ipfsHash, "no_private_key", "")
    ELSE Msg("upload_failed", NoHash, "", ipfsResult.error)

\* the message of the catch block
CaughtMessage(err) == Msg("error", NoHash, "", err)

\* variant of the handler whose catch of the parse error sets the message
\* and does not return: the pipeline starts without a snapshot
ClickPublish_NoEarlyReturn ==
    /\ Quiescent /\ PublishEnabled
    /\ configToUpload' = IF ~IsDefined(fetchedConfig) /\ ParseThrows(rawJsonValue)
                         THEN Undefined ELSE ConfigToUpload
    /\ uploading' = TRUE
    /\ uploadResult' = NoMessage
    /\ outcome' = NoOutcome
    /\ pc' = "upload"
    /\ UploaderStart(configToUpload', environmentName, ServiceCredential)
    /\ UNCHANGED <<viteJwt, cmVars, fetchProc, log, showRawJson,
                   rawJsonValue, dirty>>

\* handleUploadAndPublish up to its await; the orchestrator starts the
\* upload at once, or fails with a fault of its own
ClickPublish ==
    /\ Quiescent /\ PublishEnabled
    /\ IF ~IsDefined(fetchedConfig) /\ ParseThrows(rawJsonValue)
       THEN /\ uploadResult' = Msg("invalid_json", NoHash, "", "parse error")
            /\ UNCHANGED <<uploading, pubVars, up, net>>
       ELSE /\ configToUpload' = ConfigToUpload
            /\ uploading' = TRUE
            /\ uploadResult' = NoMessage
            /\ outcome' = NoOutcome
            /\ \E fault \in BOOLEAN :
                 IF fault
                 THEN pc' = "rejected" /\ net' = <<>> /\ up' = up
                 ELSE /\ pc' = "upload"
                      /\ UploaderStart(ConfigToUpload, environmentName,
                                       ServiceCredential)
    /\ UNCHANGED <<viteJwt, cmVars, fetchProc, log, showRawJson,
                   rawJsonValue, dirty>>

\* uploadAndUpdateIPNS once the upload has settled: a failed upload and a
\* missing owning credential both return without a naming call; a rejection
\* of the uploader would reject the orchestrator
OrchResumes ==
    /\ pc = "upload" /\ up.pc \in {"settled", "rejected"}
    /\ up' = IdleUpload
    /\ LET r == up.result
           key == configStructure.keys[environmentName]
       IN  IF up.pc = "rejected"
           THEN pc' = "rejected" /\ net' = net /\ outcome' = outcome
           ELSE IF r.success /\ Truthy(key)
           THEN /\ pc' = "name"
                /\ net' = Append(net, Call("publishName", r.ipfsHash))
                /\ outcome' = Outcome("none", r, NoIpns)
           ELSE /\ pc' = "returned"
                /\ net' = net
                /\ outcome' = Outcome("returned", r, NoIpns)
    /\ UNCHANGED <<configToUpload, viteJwt, cmVars, fetchProc, log, tabVars>>

\* the naming primitive comes back; a fault of it is captured in ipnsResult
NameResult(how) ==
    LET key == configStructure.keys[environmentName] IN
    CASE how = "ok" -> IpnsResult(TRUE, TRUE, NameOf(key), "")
      [] how = "failed" -> IpnsResult(TRUE, FALSE, "", "name update failed")
      [] OTHER -> IpnsResult(TRUE, FALSE, "", "naming network unreachable")

NameReturns ==
    /\ pc = "name"
    /\ \E how \in {"ok", "failed", "threw"} :
         outcome' = Outcome("returned", outcome.ipfsResult, NameResult(how))
    /\ pc' = "returned"
    /\ UNCHANGED <<configToUpload, upVars, viteJwt, cmVars, fetchProc, log, tabVars>>

\* the rest of the try block, and finally
HandlerFinish ==
    /\ pc = "returned"
    /\ uploadResult' = ResultMessage(outcome.ipfsResult, outcome.ipnsResult)
    /\ uploading' = FALSE
    /\ pc' = "idle"
    /\ UNCHANGED <<configToUpload, outcome, upVars, viteJwt, cmVars, fetchProc, log,
                   showRawJson, rawJsonValue, dirty>>

\* variant of the handler with try/finally and no catch
HandlerCatches_NoCatch ==
    /\ pc = "rejected"
    /\ uploading' = FALSE
    /\ pc' = "unhandled"
    /\ outcome' = Outcome("rejected", NoResult, NoIpns)
    /\ UNCHANGED <<configToUpload, uploadResult, upVars, viteJwt, cmVars, fetchProc, log,
                   showRawJson, rawJsonValue, dirty>>

\* catch, and finally
HandlerCatches ==
    /\ pc = "rejected"
    /\ uploadResult' = CaughtMessage("orchestrator fault")
    /\ uploading' = FALSE
    /\ pc' = "idle"
    /\ outcome' = Outcome("rejected", NoResult, NoIpns)
    /\ UNCHANGED <<configToUpload, upVars, viteJwt, cmVars, fetchProc, log,
                   showRawJson, rawJsonValue, dirty>>

-----------------------------------------------------------------------------
(* ConfigManager.handleFetch                                                *)

Line(level, text, env, arg, hash) ==
    [level |-> level, text |-> text, env |-> env, arg |-> arg, hash |-> hash]

\* `${key.length}`
KeyLength(key) == IF key = "k1" THEN "2" ELSE "5"

NoError == [kind |-> "null", env |-> "", detail |-> ""]
FetchError(env, detail) == [kind |-> "fetch_failed", env |-> env, detail |-> detail]

\* no call in flight; a call in flight keeps the owning credential of the
\* configuration its closure holds, and whether a reset or a load of a
\* configuration happened since it started
NoFetch == [pc |-> "idle", key |-> "", resolved |-> "none", stale |-> FALSE]

\* the lines handleFetch writes before it awaits the resolver
StartLines(e, key) ==
    {Line("log", "Environment", e, "", NoHash),
     Line("log", "Public key (ipnsKey)", e, "ipnsKey", NoHash),
     Line("log", "Has private key", e, IF Truthy(key) THEN "true" ELSE "false", NoHash)}
    \cup (IF Truthy(key)
          THEN {Line("log", "Using private key for IPNS resolution", "", "", NoHash),
                Line("log", "Private key length", "", KeyLength(key), NoHash)}
          ELSE {Line("log", "Using public key for IPNS resolution", "", "", NoHash)})

\* the Fetch button: handleFetch up to the await of the resolver, which is
\* chosen by the owning credential of the configuration this render holds
FetchStart(e) ==
    /\ dirty = {} /\ ~PendingContinuation
    /\ configStructure.loaded
    /\ ~loading[e]
    /\ loading' = [loading EXCEPT ![e] = TRUE]
    /\ error' = NoError
    /\ fetchProc' = [fetchProc EXCEPT
                        ![e] = [pc |-> "resolving", key |-> configStructure.keys[e],
                                resolved |-> "none", stale |-> FALSE]]
    /\ log' = log \cup StartLines(e, configStructure.keys[e])
    /\ dirty' = {"e2"}
    /\ UNCHANGED <<viteJwt, configStructure, fetchedConfigs, currentIPFSHashes,
                   showRawJson, rawJsonValue, uploading, uploadResult, pubVars, upVars>>

\* variant of the console line that leaves the result's error text out
ResolveLine_NoErrorText(how, hash) ==
    CASE how = "ok" -> Line("log", "Resolved IPNS to IPFS hash", "", "", hash)
      [] how = "threw" -> Line("warn", "Error resolving IPNS", "", "resolver fault", NoHash)
      [] OTHER -> Line("warn", "Could not resolve IPNS", "", "", NoHash)

\* the console line for what the resolver did: the hash, the error text of
\* an unsuccessful result (never published, or a failed query), or the
\* error caught
ResolveLine(how, hash) ==
    CASE how = "ok" -> Line("log", "Resolved IPNS to IPFS hash", "", "", hash)
      [] how = "not_published" ->
           Line("warn", "Could not resolve IPNS", "", "not yet published", NoHash)
      [] how = "failed" ->
           Line("warn", "Could not resolve IPNS", "", "resolve error", NoHash)
      [] OTHER -> Line("warn", "Error resolving IPNS", "", "resolver fault", NoHash)

\* variant of the step after the resolver in which a throw is not caught:
\* handleFetch ends there
AfterResolve_ThrowAborts(e, how, hash) ==
    /\ fetchProc' = [fetchProc EXCEPT ![e].pc = IF how = "threw" THEN "idle"
                                              ELSE "fetching",
                                      ![e].resolved = how]
    /\ currentIPFSHashes' = IF how = "ok"
                            THEN [currentIPFSHashes EXCEPT ![e] = hash]
                            ELSE currentIPFSHashes
    /\ log' = log \cup
              {IF how = "threw"
               THEN Line("error", "Uncaught", "", "resolver fault", NoHash)
               ELSE ResolveLine(how, hash)}
    /\ error' = error

\* the resolver comes back, with a result or a throw (which the try block
\* catches); then fetchFromIPNS is called
AfterResolve(e, how, hash) ==
    /\ fetchProc' = [fetchProc EXCEPT ![e].pc = "fetching", ![e].resolved = how]
    /\ currentIPFSHashes' = IF how = "ok"
                            THEN [currentIPFSHashes EXCEPT ![e] = hash]
                            ELSE currentIPFSHashes
    /\ log' = log \cup {ResolveLine(how, hash)}
    /\ error' = error

\* what a resolver does: a hash, a name never published, a failed query,
\* or a throw
ResolveOutcomes == {"ok", "not_published", "failed", "threw"}

ResolvedHashes == {Cid(JsonStringifyPretty(JsObject(<<Entry("a", JsString("1"))>>)))}

ResolveReturns(e) ==
    /\ fetchProc[e].pc = "resolving"
    /\ \E how \in ResolveOutcomes, hash \in ResolvedHashes :
         AfterResolve(e, how, hash)
    /\ dirty' = IF configStructure.loaded THEN dirty \cup {"e2"} ELSE {}
    /\ UNCHANGED <<viteJwt, configStructure, fetchedConfigs, loading,
                   showRawJson, rawJsonValue, uploading, uploadResult, pubVars, upVars>>

FetchResult(success, data, hash, err) ==
    [success |-> success, data |-> data, ipfsHash |-> hash, error |-> err]

\* fetchFromIPNS comes back: the snapshot is stored, and the gateway's hash
\* only for an environment without an owning credential
AfterFetch(e, result) ==
    /\ IF result.success /\ IsDefined(result.data)
       THEN /\ fetchedConfigs' = [fetchedConfigs EXCEPT ![e] = result.data]
            /\ currentIPFSHashes' =
                   IF result.ipfsHash # NoHash /\ ~Truthy(fetchProc[e].key)
                   THEN [currentIPFSHashes EXCEPT ![e] = result.ipfsHash]
                   ELSE currentIPFSHashes
            /\ error' = error
            /\ dirty' = DirtyAfter(e)
       ELSE /\ error' = FetchError(e, result.error)
            /\ dirty' = IF configStructure.loaded THEN dirty \cup {"e2"} ELSE {}
            /\ UNCHANGED <<fetchedConfigs, currentIPFSHashes>>
    /\ loading' = [loading EXCEPT ![e] = FALSE]
    /\ fetchProc' = [fetchProc EXCEPT ![e] = NoFetch]

\* snapshots a completed fetch leaves behind
FetchedSnapshots ==
    {JsObject(<<Entry("a", JsString("1"))>>),
     JsObject(<<Entry("a", JsString("1")), Entry("b", JsString("2"))>>)}

GatewayHashes ==
    {NoHash, Cid(JsonStringifyPretty(JsObject(<<Entry("a", JsString("1")),
                                                Entry("b", JsString("2"))>>)))}

FetchResults ==
    {FetchResult(TRUE, d, h, "") : d \in FetchedSnapshots, h \in GatewayHashes}
    \cup {FetchResult(FALSE, Undefined, NoHash, "gateway error")}

\* fetchFromIPNS rejects: the await is outside any try, so handleFetch ends
\* there, before setLoading
FetchThrows(e) ==
    /\ fetchProc' = [fetchProc EXCEPT ![e] = NoFetch]
    /\ UNCHANGED <<fetchedConfigs, currentIPFSHashes, error, loading, dirty>>

FetchReturns(e) ==
    /\ fetchProc[e].pc = "fetching"
    /\ \/ \E result \in FetchResults : AfterFetch(e, result)
       \/ FetchThrows(e)
    /\ UNCHANGED <<viteJwt, configStructure, log, showRawJson, rawJsonValue,
                   uploading, uploadResult, pubVars, upVars>>

\* null: no configuration is loaded, ConfigUpload is shown and no tab is mounted
NotLoaded ==
    [loaded |-> FALSE, pinataJWT |-> "", keys |-> [e \in Envs |-> ""],
     envJwt |-> [e \in Envs |-> ""]]

\* the calls of handleFetch in flight outlive a reset and a load
Outlived == [e \in Envs |-> IF fetchProc[e].pc = "idle" THEN fetchProc[e]
                            ELSE [fetchProc[e] EXCEPT !.stale = TRUE]]

\* handleReset: the snapshots, the hashes and the banner are cleared, the
\* loading flags are not; the tabs are unmounted (no publish is in flight)
HandleReset ==
    /\ Quiescent /\ pc = "idle" /\ up.pc = "idle"
    /\ configStructure.loaded
    /\ configStructure' = NotLoaded
    /\ fetchedConfigs' = [e \in Envs |-> Undefined]
    /\ currentIPFSHashes' = [e \in Envs |-> NoHash]
    /\ error' = NoError
    /\ fetchProc' = Outlived
    /\ showRawJson' = FALSE /\ rawJsonValue' = EmptyText
    /\ uploading' = FALSE /\ uploadResult' = NoMessage
    /\ dirty' = {}
    /\ UNCHANGED <<viteJwt, loading, log, pubVars, upVars>>

\* handleConfigLoaded: the same clearing, and the tab of the first
\* environment is mounted (its effects are due)
ConfigLoaded(config) ==
    /\ ~configStructure.loaded
    /\ configStructure' = config
    /\ fetchedConfigs' = [e \in Envs |-> Undefined]
    /\ currentIPFSHashes' = [e \in Envs |-> NoHash]
    /\ error' = NoError
    /\ fetchProc' = Outlived
    /\ showRawJson' = FALSE /\ rawJsonValue' = EmptyText
    /\ uploading' = FALSE /\ uploadResult' = NoMessage
    /\ dirty' = {"e1", "e2"}
    /\ UNCHANGED <<viteJwt, loading, log, pubVars, upVars>>

-----------------------------------------------------------------------------
(* The publish pipeline driven from the tab                                 *)

Jwts == {"", "jwt-env"}
ViteJwts == {"", "jwt-vite"}
PrivateKeys == {"", "k1", "key-2"}
TableKeys == {"a", "b"}
InputKeys == {"a", "b", " "}
InputTexts == {"1", "2"}

EnvJwts == {"", "jwt-dev"}

\* a loaded configuration: _env.pinataJWT, and per environment the owning
\* credential and the environment's own service credential
Config(jwt, devKey, prodKey) ==
    [loaded |-> TRUE, pinataJWT |-> jwt,
     keys |-> [e \in Envs |-> IF e = "dev" THEN devKey ELSE prodKey],
     envJwt |-> [e \in Envs |-> ""]]

\* the tab after mount and a flush of its effects
TabInit ==
    /\ showRawJson = FALSE
    /\ rawJsonValue = IF IsDefined(fetchedConfig)
                      THEN JsonStringifyPretty(fetchedConfig)
                      ELSE BlankObjectText
    /\ uploading = FALSE
    /\ uploadResult = NoMessage
    /\ dirty = {}

IdleInit ==
    /\ currentIPFSHashes = [e \in Envs |-> NoHash]
    /\ loading = [e \in Envs |-> FALSE]
    /\ error = NoError
    /\ fetchProc = [e \in Envs |-> NoFetch]
    /\ pc = "idle"
    /\ configToUpload = Undefined
    /\ outcome = NoOutcome
    /\ up = IdleUpload
    /\ net = <<>>

\* the console after one handleFetch of the tab's environment whose
\* resolution was unsuccessful
LogAfterFetch ==
    StartLines(environmentName, configStructure.keys[environmentName])
    \cup {Line("warn", "Could not resolve IPNS", "", "resolve error", NoHash)}

\* a configuration is loaded; the tab's environment is either not fetched
\* yet, or was fetched once (unresolved name, no gateway hash)
Init ==
    /\ viteJwt \in ViteJwts
    /\ \E jwt \in Jwts, key \in PrivateKeys, own \in EnvJwts :
         configStructure = [Config(jwt, key, "") EXCEPT !.envJwt[environmentName] = own]
    /\ \/ /\ fetchedConfigs = [e \in Envs |-> Undefined]
          /\ log = {}
       \/ /\ fetchedConfigs = [e \in Envs |->
                                  IF e = environmentName
                                  THEN JsObject(<<Entry("a", JsString("1"))>>)
                                  ELSE Undefined]
          /\ log = LogAfterFetch
    /\ IdleInit
    /\ TabInit

Next ==
    \/ ClickPublish
    \/ AuthReturns
    \/ StoreReturns
    \/ OrchResumes
    \/ NameReturns
    \/ HandlerFinish
    \/ HandlerCatches
    \/ RunEffects
    \/ \E t \in InputTexts : TableEditValue("a", t)

Spec == Init /\ [][Next]_vars

\* every request is answered or fails, and a settled promise resumes the
\* function that awaits it
PipelineFairness ==
    /\ WF_vars(AuthReturns) /\ WF_vars(StoreReturns) /\ WF_vars(OrchResumes)
    /\ WF_vars(NameReturns) /\ WF_vars(HandlerFinish) /\ WF_vars(HandlerCatches)

SpecLive == Spec /\ PipelineFairness


-----------------------------------------------------------------------------
(* uploadConfigToIPFS called on its own, with any arguments                 *)

UploadInputs ==
    {JsObject(<<>>),
     JsObject(<<Entry("a", JsString("1"))>>),
     JsObject(<<Entry("a", JsNumber("1"))>>),
     JsObject(<<Entry("a", JsString("1")), Entry("b", JsString("2"))>>),
     JsNum("5"),
     JsNull}

DirectCall(config, env, pinataJWT) ==
    /\ up.pc \in {"idle", "settled"}
    /\ UploaderStart(config, env, pinataJWT)
    /\ UNCHANGED <<viteJwt, cmVars, fetchProc, log, tabVars, pubVars>>

InitUploader ==
    /\ viteJwt \in ViteJwts
    /\ configStructure = Config("", "", "")
    /\ fetchedConfigs = [e \in Envs |-> Undefined]
    /\ log = {}
    /\ IdleInit
    /\ TabInit

NextUploader ==
    \/ \E config \in UploadInputs, e \in Envs, jwt \in Jwts : DirectCall(config, e, jwt)
    \/ AuthReturns
    \/ StoreReturns

SpecUploader == InitUploader /\ [][NextUploader]_vars

-----------------------------------------------------------------------------
(* Fetching, for both environments                                          *)

InitFetch ==
    /\ viteJwt = ""
    /\ \E devKey \in PrivateKeys, prodKey \in PrivateKeys :
         configStructure = Config("jwt-env", devKey, prodKey)
    /\ fetchedConfigs = [e \in Envs |-> Undefined]
    /\ log = {}
    /\ IdleInit
    /\ TabInit

NextFetch ==
    \/ \E e \in Envs : FetchStart(e)
    \/ \E e \in Envs : ResolveReturns(e)
    \/ \E e \in Envs : FetchReturns(e)
    \/ RunEffects

SpecFetch == InitFetch /\ [][NextFetch]_vars

\* the resolver outcome a reader takes from a console line
ReportedResolution(l) ==
    CASE l.text = "Resolved IPNS to IPFS hash" -> "ok"
      [] l.text = "Could not resolve IPNS" /\ l.arg = "not yet published" -> "not_published"
      [] l.text = "Could not resolve IPNS" -> "failed"
      [] l.text = "Error resolving IPNS" -> "threw"
      [] OTHER -> "none"

LoadingIsReset ==
    \A e \in Envs : fetchProc[e].pc = "idle" => ~loading[e]

\* C12: what handleFetch writes to the console does not depend on the
\* value of the owning credential: a run with any other credential writes
\* the same lines
CredentialNeverLogged ==
    \A e \in Envs :
        (fetchProc[e].pc # "idle" /\ Truthy(fetchProc[e].key))
        => \A other \in PrivateKeys \ {""} : StartLines(e, other) \subseteq log

\* C8: whatever the resolver did (a result, an unsuccessful result, a
\* throw), handleFetch goes on to call fetchFromIPNS, the error banner is
\* left as it was, and a failed resolution leaves a warning in the console
\* and no hash
ResolutionIsAdvisory ==
    [][\A e \in Envs :
         (fetchProc[e].pc = "resolving" /\ fetchProc'[e].pc # "resolving")
         => /\ fetchProc'[e].pc = "fetching"
            /\ error' = error
            /\ loading'[e]
            /\ fetchProc'[e].resolved \in {"not_published", "failed", "threw"}
                 => /\ currentIPFSHashes' = currentIPFSHashes
                    /\ log' \ log \subseteq {l \in log' : l.level = "warn"}
                    /\ \E l \in log' : l.level = "warn"]_vars

ResolutionIsAdvisoryWitness ==
    /\ fetchProc["dev"].pc = "fetching"
    /\ fetchProc["dev"].resolved = "threw"
    /\ error = NoError

-----------------------------------------------------------------------------
(* Fetching across resets and loads of the configuration, from the start of *)
(* the application                                                          *)

LoadableConfigs == {Config("jwt-env", devKey, "") : devKey \in {"", "k1"}}

InitReload ==
    /\ viteJwt = ""
    /\ configStructure = NotLoaded
    /\ fetchedConfigs = [e \in Envs |-> Undefined]
    /\ log = {}
    /\ IdleInit
    /\ showRawJson = FALSE /\ rawJsonValue = EmptyText
    /\ uploading = FALSE /\ uploadResult = NoMessage
    /\ dirty = {}

NextReload ==
    \/ \E config \in LoadableConfigs : ConfigLoaded(config)
    \/ HandleReset
    \/ \E e \in Envs : FetchStart(e)
    \/ \E e \in Envs : ResolveReturns(e)
    \/ \E e \in Envs : FetchReturns(e)
    \/ RunEffects

SpecReload == InitReload /\ [][NextReload]_vars

\* C18: for an environment with an owning credential, the hash shown is
\* only ever set by the step that takes a successful resolver result; no
\* other step (the gateway's hash of the content fetch) sets or replaces it
HashOnlyFromResolver ==
    [][\A e \in Envs :
         (/\ Truthy(configStructure.keys[e])
          /\ currentIPFSHashes'[e] # currentIPFSHashes[e]
          /\ currentIPFSHashes'[e] # NoHash)
         => fetchProc[e].pc = "resolving" /\ fetchProc'[e].resolved = "ok"]_vars

\* C20: a handleFetch that was in flight when the configuration was reset
\* or loaded writes no snapshot, no hash and no error afterwards
StaleFetchWritesNothing ==
    [][\A e \in Envs :
         (fetchProc[e].stale /\ fetchProc'[e] # fetchProc[e])
         => UNCHANGED <<fetchedConfigs, currentIPFSHashes, error>>]_vars

-----------------------------------------------------------------------------
(* The editing surface of the tab, with the publish button                  *)

Member(k, v) == Entry(k, v)

\* texts typed into the textarea
TypedTexts ==
    {EmptyText,
     Text("typed", Doc("invalid", <<>>, "")),
     Text("typed", Doc("object", <<Member("a", JsNumber("1"))>>, "")),
     Text("typed", Doc("object", <<Member(" ", JsNumber("1"))>>, "")),
     Text("typed", Doc("object", <<Member("b", JsString("2")),
                                   Member("a", JsString("1"))>>, "")),
     Text("typed", Doc("object", <<Member("b", JsBool("true"))>>, "")),
     Text("typed", Doc("null", <<>>, "")),
     SpaceText}

InitEdit ==
    /\ viteJwt = "jwt-vite"
    /\ configStructure = Config("", "", "")
    /\ fetchedConfigs = [e \in Envs |-> Undefined]
    /\ log = {}
    /\ IdleInit
    /\ TabInit

NextEdit ==
    \/ RunEffects
    \/ ToggleRawJson
    \/ \E text \in TypedTexts : TypeRawJson(text)
    \/ SaveRawJson
    \/ \E k \in TableKeys, n \in InputKeys : TableRenameKey(k, n)
    \/ \E k \in TableKeys, t \in InputTexts : TableEditValue(k, t)
    \/ \E k \in TableKeys : TableRemove(k)
    \/ \E k \in InputKeys, t \in InputTexts : TableAdd(k, t)
    \/ ClickPublish
    \/ AuthReturns
    \/ StoreReturns
    \/ OrchResumes
    \/ HandlerFinish
    \/ HandlerCatches

SpecEdit == InitEdit /\ [][NextEdit]_vars

\* React runs the effects that are due
SpecEditLive == SpecEdit /\ WF_vars(RunEffects)

\* the effects come to rest
EffectsSettle == (dirty # {}) ~> (dirty = {})

AllStrings(val) ==
    val.kind = "object" => \A i \in DOMAIN val.entries : val.entries[i].v.t = "string"

\* C10: every value of the snapshot handed to the uploader is a string
UploadedValuesAreStrings ==
    up.pc # "idle" => AllStrings(up.config)

\* the entries of the parsed text with every value coerced to a string
CoercedEntries(text) ==
    LET parsed == JsonParse(text).entries
    IN  [i \in DOMAIN parsed |-> Entry(parsed[i].k, String(parsed[i].v))]

\* C22: once the effects have come to rest on a text that parses, the
\* snapshot (none counts as empty) holds the entries of the parsed text
\* with their values coerced to strings
SyncReachesParsedText ==
    (showRawJson /\ dirty = {} /\ ~ParseThrows(rawJsonValue))
    => fetchedConfig.entries = CoercedEntries(rawJsonValue)

\* C15: while there is no fetched snapshot and the raw text does not
\* parse, no step of an idle handler starts the pipeline (no upload, no
\* request, the uploading flag stays false), and the only message a step
\* sets is the invalid-JSON one
InvalidJsonStopsPublish ==
    [][(pc = "idle" /\ ~uploading /\ ~IsDefined(fetchedConfig)
            /\ ParseThrows(rawJsonValue))
       => /\ UNCHANGED <<pc, uploading, up, net, outcome, configToUpload>>
          /\ uploadResult' # uploadResult
               => uploadResult' = Msg("invalid_json", NoHash, "", "parse error")]_vars

InvalidJsonWitness ==
    /\ uploadResult.kind = "invalid_json"
    /\ ~IsDefined(fetchedConfig) /\ ParseThrows(rawJsonValue)
    /\ ~uploading /\ pc = "idle" /\ up.pc = "idle" /\ net = <<>>

\* the two snapshots hold the same key-to-value mapping
SameMapping(x, y) ==
    /\ x.kind = "object" /\ y.kind = "object"
    /\ {e.k : e \in {x.entries[i] : i \in DOMAIN x.entries}}
         = {e.k : e \in {y.entries[i] : i \in DOMAIN y.entries}}
    /\ \A i \in DOMAIN x.entries :
         ObjGet(y.entries, x.entries[i].k) = x.entries[i].v

\* a publish is started right after one whose upload succeeded
PublishedAgain ==
    /\ pc = "idle" /\ outcome.state = "returned" /\ outcome.ipfsResult.success
    /\ pc' = "upload" /\ up'.pc = "auth"

\* C11: when a snapshot with the same key-to-value mapping as the one
\* published before is published again, whatever edits lie between the
\* two, the uploader encodes it to the bytes stored before
EncodingIsDeterministic ==
    [][(PublishedAgain /\ SameMapping(configToUpload, up'.config))
       => Cid(JsonStringifyPretty(up'.config)) = outcome.ipfsResult.ipfsHash]_vars

-----------------------------------------------------------------------------
(* The table of the tab and the snapshot handlers, with both environments   *)
(* fetched                                                                  *)

RowKeys == {"a", "b", "c"}
RenameTargets == {"a", "b", "c", " "}

\* the console after one handleFetch of each environment whose resolution
\* was unsuccessful
LogAfterFetches ==
    UNION {StartLines(e, configStructure.keys[e]) : e \in Envs}
    \cup {Line("warn", "Could not resolve IPNS", "", "resolve error", NoHash)}

InitTable ==
    /\ viteJwt = ""
    /\ configStructure = Config("jwt-env", "", "")
    /\ fetchedConfigs \in [Envs -> FetchedSnapshots]
    /\ log = LogAfterFetches
    /\ IdleInit
    /\ TabInit

NextTable ==
    \/ RunEffects
    \/ \E k \in RowKeys, n \in RenameTargets : TableRenameKey(k, n)
    \/ \E k \in RowKeys, t \in InputTexts : TableEditValue(k, t)
    \/ \E k \in RowKeys : TableRemove(k)
    \/ \E k \in InputKeys, t \in InputTexts : TableAdd(k, t)
    \/ \E e \in Envs, k \in RowKeys, n \in RowKeys : UpdateKey(e, k, n)
    \/ \E e \in Envs, k \in RowKeys, t \in InputTexts : UpdateValue(e, k, t)

SpecTable == InitTable /\ [][NextTable]_vars

\* a step that renames key k of environment e to n: the key input of the
\* tab's table, or the rename handler of ConfigManager
IsRename(e, k, n) ==
    \/ e = environmentName /\ TableRenameKey(k, n)
    \/ UpdateKey(e, k, n)

\* C16: a rename of k to another, non-blank key n leaves n with the former
\* value of k and k absent, and changes no other entry of that snapshot
\* and no other environment's snapshot; a rename of k to itself changes
\* nothing
RenameFrame ==
    [][\A e \in Envs, k \in RowKeys :
         LET old == fetchedConfigs[e].entries
             new == fetchedConfigs'[e].entries
         IN  /\ \A n \in RenameTargets \ {k, " "} :
                  IsRename(e, k, n)
                  => /\ HasKey(new, n) /\ ObjGet(new, n) = ObjGet(old, k)
                     /\ ~HasKey(new, k)
                     /\ \A j \in RowKeys \ {k, n} :
                          /\ HasKey(new, j) <=> HasKey(old, j)
                          /\ HasKey(old, j) => ObjGet(new, j) = ObjGet(old, j)
                     /\ \A other \in Envs \ {e} :
                          fetchedConfigs'[other] = fetchedConfigs[other]
             /\ IsRename(e, k, k) => fetchedConfigs' = fetchedConfigs
             /\ handleUpdateKey(fetchedConfigs, e, k, k) = fetchedConfigs]_vars

RenameFrameWitness ==
    /\ fetchedConfigs["dev"] = JsObject(<<Entry("b", JsString("2")),
                                          Entry("c", JsString("1"))>>)
    /\ fetchedConfigs["prod"] = JsObject(<<Entry("a", JsString("1")),
                                           Entry("b", JsString("2"))>>)
    /\ dirty = {"e1", "e2"}

\* the keys of a snapshot, in order
KeysOf(entries) == [i \in DOMAIN entries |-> entries[i].k]

\* C17: an edit of the value of key k in the table leaves the keys of the
\* snapshot and their order as they were, sets the value of k, and changes
\* no other value and no other environment's snapshot
ValueEditFrame ==
    [][\A k \in RowKeys, t \in InputTexts :
         TableEditValue(k, t)
         => LET old == fetchedConfigs[environmentName].entries
                new == fetchedConfigs'[environmentName].entries
            IN  /\ KeysOf(new) = KeysOf(old)
                /\ ObjGet(new, k) = JsString(t)
                /\ \A j \in RowKeys \ {k} :
                     HasKey(old, j) => ObjGet(new, j) = ObjGet(old, j)
                /\ \A other \in Envs \ {environmentName} :
                     fetchedConfigs'[other] = fetchedConfigs[other]]_vars

-----------------------------------------------------------------------------
(* Properties of the publish pipeline                                       *)

Issued(op) == {i \in DOMAIN net : net[i].op = op}

\* the invocation is over and the orchestrator had returned to the handler
Returned == pc = "idle" /\ outcome.state = "returned"

\* C1: a name update is requested only after this invocation's own upload
\* was answered with success, and only for the identifier of the snapshot
\* this invocation uploaded; after a failed upload no name update is
\* requested and no name-update result is returned
UploadBeforeName ==
    /\ \A i \in Issued("publishName") :
         /\ \E j \in Issued("upload.public.file.ok") :
              j < i /\ net[j].arg = net[i].arg
         /\ net[i].arg = Cid(JsonStringifyPretty(configToUpload))
         /\ outcome.ipfsResult.success
         /\ outcome.ipfsResult.ipfsHash = net[i].arg
    /\ (outcome.state = "returned" /\ ~outcome.ipfsResult.success)
         => Issued("publishName") = {} /\ ~outcome.ipnsResult.present

UploadBeforeNameWitness ==
    /\ pc = "name"
    /\ Issued("publishName") # {}
    /\ configToUpload = JsObject(<<Entry("a", JsString("2"))>>)
    /\ fetchedConfig = JsObject(<<Entry("a", JsString("1"))>>)

\* C2: when the upload succeeded and the name update failed, the message
\* shown reports the upload with its identifier next to the naming failure
PartialFailureIsolation ==
    (Returned /\ outcome.ipfsResult.success
        /\ outcome.ipnsResult.present /\ ~outcome.ipnsResult.success)
    => /\ uploadResult = Msg("uploaded", outcome.ipfsResult.ipfsHash, "failed",
                             outcome.ipnsResult.error)
       /\ outcome.ipfsResult.ipfsHash = Cid(JsonStringifyPretty(configToUpload))
       /\ \E j \in Issued("upload.public.file.ok") :
            net[j].arg = outcome.ipfsResult.ipfsHash

PartialFailureWitness ==
    /\ Returned /\ outcome.ipfsResult.success
    /\ outcome.ipnsResult.present /\ ~outcome.ipnsResult.success
    /\ uploadResult.ipns = "failed"

\* C3: without an owning credential no naming request is ever issued, no
\* name-update result is returned, and a successful upload is shown as an
\* upload-only success
NoCredentialSkip ==
    ~Truthy(configStructure.keys[environmentName])
    => /\ Issued("publishName") = {}
       /\ pc # "name"
       /\ ~outcome.ipnsResult.present
       /\ (Returned /\ outcome.ipfsResult.success)
            => uploadResult = Msg("uploaded", outcome.ipfsResult.ipfsHash,
                                  "no_private_key", "")

NoCredentialWitness ==
    /\ ~Truthy(configStructure.keys[environmentName])
    /\ Returned /\ outcome.ipfsResult.success
    /\ uploadResult.kind = "uploaded"

\* C4: the store request follows a successful authentication reply of the
\* same call; after a rejected authentication there is no store request
\* and the call settles with success = false
AuthBeforeStore ==
    /\ \A i \in Issued("upload.public.file") :
         i > 1 /\ net[i - 1].op = "testAuthentication.ok"
    /\ Issued("testAuthentication.rejected") # {}
         => /\ Issued("upload.public.file") = {}
            /\ Issued("upload.public.file.ok") = {}
            /\ up.pc \notin {"auth", "store"}
            /\ up.pc = "settled" => ~up.result.success

AuthBeforeStoreWitness ==
    /\ Issued("testAuthentication.rejected") # {}
    /\ up.pc = "settled"
    /\ up.result = Caught("auth rejected")

\* C5: called without a service credential (no argument, no build-time
\* variable) the uploader issues no request at all and settles with
\* success = false and an error message
NoCredentialNoNetwork ==
    (up.pc # "idle" /\ ~Truthy(up.pinataJWT) /\ ~Truthy(viteJwt))
    => /\ net = <<>>
       /\ up.pc = "settled"
       /\ ~up.result.success
       /\ up.result.error # ""

NoCredentialNoNetworkWitness ==
    /\ up.pc = "settled" /\ ~Truthy(up.pinataJWT) /\ ~Truthy(viteJwt)
    /\ up.result = Caught("Pinata JWT is required")

\* C6: no failure escapes: the uploader never rejects and a failed call of
\* it carries an error text, a naming fault is returned as a failed
\* ipnsResult, and a rejection of the orchestrator ends in the catch
\* block's message with the uploading flag reset
FailuresAreStructured ==
    /\ up.pc # "rejected"
    /\ pc # "unhandled"
    /\ (up.pc = "settled" /\ ~up.result.success) => up.result.error # ""
    /\ (outcome.ipnsResult.present /\ ~outcome.ipnsResult.success)
         => outcome.ipnsResult.error # ""
    /\ (pc = "idle" /\ outcome.state = "rejected")
         => uploadResult = CaughtMessage("orchestrator fault") /\ ~uploading
    /\ (Returned /\ ~outcome.ipfsResult.success)
         => uploadResult = Msg("upload_failed", NoHash, "", outcome.ipfsResult.error)

FailuresAreStructuredWitness ==
    /\ pc = "idle" /\ outcome.state = "rejected"
    /\ uploadResult.kind = "error"

\* the terminal state a returned outcome stands for
TerminalState(o) ==
    IF ~o.ipfsResult.success THEN "nothing happened"
    ELSE IF ~o.ipnsResult.present THEN "stored, name update skipped"
    ELSE IF ~o.ipnsResult.success THEN "stored, name update failed"
    ELSE "fully published"

\* the terminal state a reader takes from the message alone
ReportedState(msg) ==
    CASE msg.kind = "upload_failed" -> "nothing happened"
      [] msg.kind = "uploaded" /\ msg.ipns = "no_private_key" -> "stored, name update skipped"
      [] msg.kind = "uploaded" /\ msg.ipns = "failed" -> "stored, name update failed"
      [] msg.kind = "uploaded" /\ msg.ipns = "updated" -> "fully published"
      [] OTHER -> "none"

\* C7: the message identifies the terminal state reached, so two different
\* terminal states never share a message
ReportIdentifiesState ==
    Returned => ReportedState(uploadResult) = TerminalState(outcome)

ReportIdentifiesStateWitness ==
    /\ Returned
    /\ TerminalState(outcome) = "fully published"
    /\ uploadResult.ipns = "updated"

\* C9: the handler has run only where isPinataConfigured holds for the
\* configured credential: nothing is in flight and no result is shown
\* otherwise
PublishNeedsConfigured ==
    (uploading \/ pc # "idle" \/ up.pc # "idle" \/ uploadResult # NoMessage)
    => isPinataConfigured(configStructure.pinataJWT)

\* C21: the uploading flag is true exactly while an invocation of
\* handleUploadAndPublish is in flight; the handler is entered only while
\* none is, a pipeline starts only by a click, every outcome ends the
\* invocation with the flag reset and nothing run again, and the flag is
\* always reset in the end
OnePublishInFlight ==
    /\ [](uploading <=> pc # "idle")
    /\ [][ClickPublish => (pc = "idle" /\ ~uploading)]_vars
    /\ [][(pc = "idle" /\ pc' # "idle") => ClickPublish]_vars
    /\ [][(pc \in {"returned", "rejected"} /\ pc' # pc)
           => (pc' = "idle" /\ ~uploading' /\ UNCHANGED <<up, net>>)]_vars
    /\ (uploading ~> ~uploading)

OnePublishInFlightWitness ==
    /\ pc = "idle" /\ ~uploading
    /\ outcome.state = "returned" /\ ~outcome.ipfsResult.success
    /\ Issued("testAuthentication") # {}

PublishNeedsConfiguredWitness ==
    /\ uploading
    /\ ~Truthy(configStructure.pinataJWT)
    /\ isPinataConfigured(configStructure.pinataJWT)

\* C13: the service credential is the environment's own when it has one
\* and the shared one of _env otherwise, both for the upload and for the
\* configured check that enables the publish button
ServiceCredentialPrecedence ==
    /\ up.pc # "idle" => up.pinataJWT = ServiceCredential
    /\ HeaderPublishEnabled
         <=> /\ ~uploading
             /\ isPinataConfigured(ServiceCredential)
             /\ ~(showRawJson /\ TrimIsEmpty(rawJsonValue))


====
